---- MODULE Spec2Model ----
(***************************************************************************)
(* NeerSetu groundwater copilot: the ask_agent pipeline of                 *)
(* backend/agent.py with the structured store of backend/tools/sql_tool.py *)
(* and the keyword retriever of backend/tools/rag_tool.py.                 *)
(*                                                                         *)
(* Texts are TLA+ strings handled character by character (Len, SubSeq and  *)
(* \o act on strings).  Strings of the module are ASCII, so the four       *)
(* non-ASCII literals of the source are written with stand-ins:            *)
(*    EN DASH  U+2013  ->  "~"        EM DASH  U+2014  ->  "^"             *)
(*    "Δ≈"             ->  "d~="      "क्या" / "कैसे"  ->  "{kya}" / "{kaise}"*)
(* Levels are fixed-point numbers, in hundredths of a metre.               *)
(***************************************************************************)
EXTENDS Integers, Sequences, FiniteSets, TLC

VARIABLES
    pc,               \* position of the request inside ask_agent
    query,            \* the query string of the request
    db,               \* rows of the table gw_levels
    api_key,          \* whether _API_KEY is non-empty
    intent,           \* locals of ask_agent ...
    block,
    years,
    tool_outputs,
    citations,
    forced_table_md,
    rag_hits,
    rag_failed,       \* whether rag_store.search raised
    llm,              \* what the generative backend did when called
    answer,           \* the value ask_agent returns
    outcome,          \* "none", "returned" or "raised"
    calls             \* number of calls made to each collaborator

vars == <<pc, query, db, api_key, intent, block, years, tool_outputs,
          citations, forced_table_md, rag_hits, rag_failed, llm, answer,
          outcome, calls>>

(***************************************************************************)
(* Characters and the str methods the code uses.                           *)
(***************************************************************************)
Chr(s, i) == SubSeq(s, i, i)

Lowers == "abcdefghijklmnopqrstuvwxyz"

Uppers == "ABCDEFGHIJKLMNOPQRSTUVWXYZ"

Digits == "0123456789"

\* Printable ASCII in code-point order (without the backquote), tab and
\* newline first.
Ascii == "\t\n !\"#$%&'()*+,-./0123456789:;<=>?@ABCDEFGHIJKLMNOPQRSTUVWXYZ[\\]^_abcdefghijklmnopqrstuvwxyz{|}~"

RECURSIVE PosFrom(_, _, _)
PosFrom(c, alpha, i) ==
    IF i > Len(alpha) THEN 0
    ELSE IF Chr(alpha, i) = c THEN i ELSE PosFrom(c, alpha, i + 1)

Pos(c, alpha) == PosFrom(c, alpha, 1)

CharSet(alpha) == {Chr(alpha, i) : i \in 1..Len(alpha)}

LowerSet == CharSet(Lowers)

UpperSet == CharSet(Uppers)

DigitSet == CharSet(Digits)

\* ord(c), as the rank of c among the ASCII characters
OrdMap == [c \in CharSet(Ascii) |-> Pos(c, Ascii)]

Ord(c) == OrdMap[c]

ToLowerMap == [c \in UpperSet |-> Chr(Lowers, Pos(c, Uppers))]

ToUpperMap == [c \in LowerSet |-> Chr(Uppers, Pos(c, Lowers))]

IsLower(c) == c \in LowerSet

IsUpper(c) == c \in UpperSet

IsAlpha(c) == IsLower(c) \/ IsUpper(c)

IsDigit(c) == c \in DigitSet

\* \s of the re module (ASCII white space that can occur in a text here)
IsSpace(c) == c \in {" ", "\t", "\n"}

\* \w of the re module
IsWord(c) == IsAlpha(c) \/ IsDigit(c) \/ c = "_"

LowerChar(c) == IF IsUpper(c) THEN ToLowerMap[c] ELSE c

UpperChar(c) == IF IsLower(c) THEN ToUpperMap[c] ELSE c

\* the characters i..j of s in lower case; the range is halved so that the
\* evaluation stays shallow on long texts
RECURSIVE LowerRange(_, _, _)
LowerRange(s, i, j) ==
    IF i > j THEN ""
    ELSE IF i = j THEN LowerChar(Chr(s, i))
    ELSE LET m == (i + j) \div 2
         IN  LowerRange(s, i, m) \o LowerRange(s, m + 1, j)

\* str.lower()
Lower(s) == LowerRange(s, 1, Len(s))

RECURSIVE UpperRange(_, _, _)
UpperRange(s, i, j) ==
    IF i > j THEN ""
    ELSE IF i = j THEN UpperChar(Chr(s, i))
    ELSE LET m == (i + j) \div 2
         IN  UpperRange(s, i, m) \o UpperRange(s, m + 1, j)

\* str.upper()
Upper(s) == UpperRange(s, 1, Len(s))

\* sub == s[i : i+len(sub)]
MatchAt(s, i, sub) ==
    /\ i >= 1
    /\ i + Len(sub) - 1 <= Len(s)
    /\ SubSeq(s, i, i + Len(sub) - 1) = sub

\* sub in s
Contains(s, sub) == \E i \in 1..(Len(s) - Len(sub) + 1) : MatchAt(s, i, sub)

\* s.startswith(sub)
StartsWith(s, sub) == MatchAt(s, 1, sub)

\* s.find(sub, i), 1-based, 0 when absent
FindFrom(s, sub, i) ==
    LET found == {j \in i..(Len(s) - Len(sub) + 1) : MatchAt(s, j, sub)}
    IN  IF found = {} THEN 0 ELSE CHOOSE j \in found : \A k \in found : j <= k

\* number of non-overlapping occurrences of sub in s (str.count)
RECURSIVE CountFrom(_, _, _)
CountFrom(s, sub, i) ==
    LET j == FindFrom(s, sub, i)
    IN  IF j = 0 THEN 0 ELSE 1 + CountFrom(s, sub, j + Len(sub))

Count(s, sub) == CountFrom(s, sub, 1)

\* str.replace(old, new): non-overlapping occurrences, left to right
RECURSIVE ReplaceFrom(_, _, _, _)
ReplaceFrom(s, old, new, i) ==
    LET j == FindFrom(s, old, i)
    IN  IF j = 0 THEN SubSeq(s, i, Len(s))
        ELSE SubSeq(s, i, j - 1) \o new \o ReplaceFrom(s, old, new, j + Len(old))

Replace(s, old, new) == ReplaceFrom(s, old, new, 1)

\* str.title(): a cased character is upper-cased after an uncased one and
\* lower-cased after a cased one
RECURSIVE TitleFrom(_, _, _)
TitleFrom(s, i, prevCased) ==
    IF i > Len(s) THEN ""
    ELSE LET c == Chr(s, i)
         IN  (IF ~IsAlpha(c) THEN c
              ELSE IF prevCased THEN LowerChar(c) ELSE UpperChar(c))
             \o TitleFrom(s, i + 1, IsAlpha(c))

Title(s) == TitleFrom(s, 1, FALSE)

RECURSIVE LStripFrom(_, _)
LStripFrom(s, i) ==
    IF i <= Len(s) /\ IsSpace(Chr(s, i)) THEN LStripFrom(s, i + 1)
    ELSE SubSeq(s, i, Len(s))

RECURSIVE RStripTo(_, _)
RStripTo(s, j) ==
    IF j >= 1 /\ IsSpace(Chr(s, j)) THEN RStripTo(s, j - 1)
    ELSE SubSeq(s, 1, j)

\* str.strip()
Strip(s) == LStripFrom(RStripTo(s, Len(s)), 1)

\* "sep".join(parts)
RECURSIVE Join(_, _)
Join(parts, sep) ==
    IF Len(parts) = 0 THEN ""
    ELSE IF Len(parts) = 1 THEN parts[1]
    ELSE parts[1] \o sep \o Join(Tail(parts), sep)

\* str.split(): maximal runs of non-space characters
RECURSIVE SplitFrom(_, _, _)
SplitFrom(s, i, cur) ==
    IF i > Len(s) THEN (IF cur = "" THEN <<>> ELSE <<cur>>)
    ELSE IF IsSpace(Chr(s, i))
         THEN (IF cur = "" THEN <<>> ELSE <<cur>>) \o SplitFrom(s, i + 1, "")
         ELSE SplitFrom(s, i + 1, cur \o Chr(s, i))

Split(s) == SplitFrom(s, 1, "")

\* string comparison by code point: s < t
RECURSIVE StrLess(_, _)
StrLess(s, t) ==
    IF Len(t) = 0 THEN FALSE
    ELSE IF Len(s) = 0 THEN TRUE
    ELSE IF Head(s) = Head(t) THEN StrLess(Tail(s), Tail(t))
    ELSE Ord(Head(s)) < Ord(Head(t))

\* int() of a string of decimal digits
RECURSIVE ToIntFrom(_, _, _)
ToIntFrom(s, i, acc) ==
    IF i > Len(s) THEN acc
    ELSE ToIntFrom(s, i + 1, 10 * acc + (Pos(Chr(s, i), Digits) - 1))

ToInt(s) == ToIntFrom(s, 1, 0)

\* str() of a natural number
RECURSIVE NatStr(_)
NatStr(n) ==
    IF n < 10 THEN Chr(Digits, n + 1)
    ELSE NatStr(n \div 10) \o Chr(Digits, (n % 10) + 1)

(***************************************************************************)
(* QueryRouter: _detect_intent, year extraction, _extract_block.           *)
(***************************************************************************)
\* the pattern 20\d{2} matches at position i
YearAt(s, i) ==
    /\ MatchAt(s, i, "20")
    /\ i + 3 <= Len(s)
    /\ IsDigit(Chr(s, i + 2))
    /\ IsDigit(Chr(s, i + 3))

\* re.findall(r"(20\d{2})", s): non-overlapping matches, left to right
RECURSIVE FindYearsFrom(_, _)
FindYearsFrom(s, i) ==
    IF i + 3 > Len(s) THEN <<>>
    ELSE IF YearAt(s, i) THEN <<SubSeq(s, i, i + 3)>> \o FindYearsFrom(s, i + 4)
    ELSE FindYearsFrom(s, i + 1)

FindYears(s) == FindYearsFrom(s, 1)

StageWords == {"stage", "over-exploited", "critical", "safe"}

DefinitionWords == {"what", "how", "explain", "meaning", "{kya}", "{kaise}"}

\* the classification with the stage rule tried before the trend rule
DetectIntentStageFirst(q) ==
    LET ql  == Lower(q)
        yrs == FindYears(ql)
    IN  IF Contains(ql, "compare") \/ Contains(ql, " vs ") \/ StartsWith(ql, "compare ")
        THEN "compare"
        ELSE IF \E k \in StageWords : Contains(ql, k)
        THEN (IF Len(yrs) >= 1 THEN "stage_lookup" ELSE "definition")
        ELSE IF Contains(ql, "trend") \/ (Contains(ql, "from") /\ Contains(ql, "to"))
                \/ Len(yrs) >= 2
        THEN "trend"
        ELSE IF \E k \in DefinitionWords : Contains(ql, k) THEN "definition"
        ELSE "mixed"

\* the classification with the trend rule tried before the compare rule
DetectIntentTrendFirst(q) ==
    LET ql  == Lower(q)
        yrs == FindYears(ql)
    IN  IF Contains(ql, "trend") \/ (Contains(ql, "from") /\ Contains(ql, "to"))
           \/ Len(yrs) >= 2
        THEN "trend"
        ELSE IF Contains(ql, "compare") \/ Contains(ql, " vs ") \/ StartsWith(ql, "compare ")
        THEN "compare"
        ELSE IF \E k \in StageWords : Contains(ql, k)
        THEN (IF Len(yrs) >= 1 THEN "stage_lookup" ELSE "definition")
        ELSE IF \E k \in DefinitionWords : Contains(ql, k) THEN "definition"
        ELSE "mixed"

_detect_intent(q) ==
    LET ql  == Lower(q)
        yrs == FindYears(ql)
    IN  IF Contains(ql, "compare") \/ Contains(ql, " vs ") \/ StartsWith(ql, "compare ")
        THEN "compare"
        ELSE IF Contains(ql, "trend") \/ (Contains(ql, "from") /\ Contains(ql, "to"))
                \/ Len(yrs) >= 2
        THEN "trend"
        ELSE IF \E k \in StageWords : Contains(ql, k)
        THEN (IF Len(yrs) >= 1 THEN "stage_lookup" ELSE "definition")
        ELSE IF \E k \in DefinitionWords : Contains(ql, k) THEN "definition"
        ELSE "mixed"

\* a character of the class [a-z0-9\-] under re.I
IsBlockTokChar(c) == IsAlpha(c) \/ IsDigit(c) \/ c = "-"

RECURSIVE SkipSpaces(_, _)
SkipSpaces(s, i) ==
    IF i <= Len(s) /\ IsSpace(Chr(s, i)) THEN SkipSpaces(s, i + 1) ELSE i

RECURSIVE SkipBlockTok(_, _)
SkipBlockTok(s, i) ==
    IF i <= Len(s) /\ IsBlockTokChar(Chr(s, i)) THEN SkipBlockTok(s, i + 1) ELSE i

\* block\s+[a-z0-9\-]+ (re.I) matched at position i: <<start of the token,
\* position after the match>>, or <<0, 0>> when there is no match at i
BlockAt(s, i) ==
    IF ~MatchAt(Lower(s), i, "block") THEN <<0, 0>>
    ELSE LET t == SkipSpaces(s, i + 5)
             e == SkipBlockTok(s, t)
         IN  IF t > i + 5 /\ e > t THEN <<t, e>> ELSE <<0, 0>>

\* re.search of that pattern: the leftmost position with a match, or 0
RECURSIVE BlockSearch(_, _)
BlockSearch(s, i) ==
    IF i > Len(s) THEN 0
    ELSE IF BlockAt(s, i)[1] > 0 THEN i ELSE BlockSearch(s, i + 1)

\* re.sub(r"[^\w\- ]+$", "", b): drop the trailing run of characters that
\* are neither word characters, hyphens nor blanks
RECURSIVE StripTrailingPunct(_)
StripTrailingPunct(b) ==
    IF Len(b) = 0 THEN b
    ELSE LET c == Chr(b, Len(b))
         IN  IF IsWord(c) \/ c = "-" \/ c = " " THEN b
             ELSE StripTrailingPunct(SubSeq(b, 1, Len(b) - 1))

\* \bfor\s+([a-z])\b (re.I) matched at position i: position of the letter, or 0
ForLetterAt(s, i) ==
    IF ~MatchAt(Lower(s), i, "for") THEN 0
    ELSE IF i > 1 /\ IsWord(Chr(s, i - 1)) THEN 0
    ELSE LET t == SkipSpaces(s, i + 3)
         IN  IF /\ t > i + 3
                /\ t <= Len(s)
                /\ IsAlpha(Chr(s, t))
                /\ (t = Len(s) \/ ~IsWord(Chr(s, t + 1)))
             THEN t ELSE 0

RECURSIVE ForLetterSearch(_, _)
ForLetterSearch(s, i) ==
    IF i > Len(s) THEN 0
    ELSE IF ForLetterAt(s, i) > 0 THEN ForLetterAt(s, i)
    ELSE ForLetterSearch(s, i + 1)

\* line 66: the rendering of the token
BlockName(tok) ==
    IF Len(tok) = 1 THEN "Block " \o Upper(tok)
    ELSE Title(Replace("Block " \o tok, "Block block", "Block "))

_extract_block(q) ==
    LET m == BlockSearch(q, 1)
    IN  IF m > 0
        THEN LET b  == StripTrailingPunct(Strip(SubSeq(q, m, BlockAt(q, m)[2] - 1)))
                 m2 == BlockAt(b, 1)
             IN  IF m2[1] > 0
                 THEN BlockName(Strip(SubSeq(b, m2[1], m2[2] - 1)))
                 ELSE Title(b)
        ELSE LET f == ForLetterSearch(q, 1)
             IN  IF f > 0 THEN "Block " \o Upper(Chr(q, f)) ELSE "Block A"

RECURSIVE MapToInt(_)
MapToInt(ys) == IF Len(ys) = 0 THEN <<>> ELSE <<ToInt(Head(ys))>> \o MapToInt(Tail(ys))

\* the extraction that reads a single year y as the range y..y
ExtractYearsPadded(q) ==
    LET ys == MapToInt(FindYears(q))
    IN  IF Len(ys) = 1 THEN ys \o ys ELSE ys

\* years = [int(y) for y in re.findall(r"(20\d{2})", query)]
ExtractYears(q) == MapToInt(FindYears(q))

(***************************************************************************)
(* StructuredFactStore: backend/tools/sql_tool.py over the table gw_levels.*)
(***************************************************************************)
SOURCE == "SQLite gw_levels"

\* the rows of a set of rows, ORDER BY year ASC
RECURSIVE OrderByYear(_)
OrderByYear(rs) ==
    IF rs = {} THEN <<>>
    ELSE LET r == CHOOSE x \in rs : \A y \in rs : x.year <= y.year
         IN  <<r>> \o OrderByYear(rs \ {r})

_fetch_rows(d, blk, start_year, end_year) ==
    OrderByYear({r \in d : /\ Lower(r.block) = Lower(blk)
                           /\ r.year >= start_year
                           /\ r.year <= end_year})

Max(a, b) == IF a >= b THEN a ELSE b

\* rows[:n], the first rows instead of the last ones
FirstN(rows, n) == SubSeq(rows, 1, IF Len(rows) < n THEN Len(rows) ELSE n)

\* rows[-n:]
LastN(rows, n) == SubSeq(rows, Max(1, Len(rows) - n + 1), Len(rows))

TINY_ROWS == 5

\* get_trend answering an empty range with the message of the compare branch
GetTrendGenericMsg(d, blk, start_year, end_year) ==
    LET rows == _fetch_rows(d, blk, start_year, end_year)
    IN  IF Len(rows) = 0
        THEN [ok |-> FALSE, msg |-> "insufficient data for requested years."]
        ELSE LET first == rows[1]
                 last  == rows[Len(rows)]
             IN  [ok |-> TRUE, block |-> blk,
                  start |-> first.year, end |-> last.year,
                  slope_per_year |-> [num |-> last.level_m - first.level_m,
                                      den |-> Max(1, last.year - first.year)],
                  latest_stage |-> last.stage,
                  tiny_table |-> LastN(rows, TINY_ROWS),
                  source |-> SOURCE]

\* the slope is kept exact, as the level difference (hundredths of a metre)
\* over the number of years
get_trend(d, blk, start_year, end_year) ==
    LET rows == _fetch_rows(d, blk, start_year, end_year)
    IN  IF Len(rows) = 0
        THEN [ok |-> FALSE,
              msg |-> "insufficient data for " \o blk \o " " \o NatStr(start_year)
                      \o "-" \o NatStr(end_year)]
        ELSE LET first == rows[1]
                 last  == rows[Len(rows)]
             IN  [ok |-> TRUE, block |-> blk,
                  start |-> first.year, end |-> last.year,
                  slope_per_year |-> [num |-> last.level_m - first.level_m,
                                      den |-> Max(1, last.year - first.year)],
                  latest_stage |-> last.stage,
                  tiny_table |-> LastN(rows, TINY_ROWS),
                  source |-> SOURCE]

\* get_stage without the condition on the year: the latest record of the block
GetStageAnyYear(d, blk, year) ==
    LET found == {r \in d : Lower(r.block) = Lower(blk)}
    IN  IF found = {}
        THEN [ok |-> FALSE,
              msg |-> "insufficient data for " \o blk \o " " \o NatStr(year)]
        ELSE LET row == CHOOSE r \in found : \A x \in found : x.year <= r.year
             IN  [ok |-> TRUE, block |-> blk, year |-> year, stage |-> row.stage,
                  level_m |-> row.level_m, source |-> SOURCE]

get_stage(d, blk, year) ==
    LET found == {r \in d : Lower(r.block) = Lower(blk) /\ r.year = year}
    IN  IF found = {}
        THEN [ok |-> FALSE,
              msg |-> "insufficient data for " \o blk \o " " \o NatStr(year)]
        ELSE LET row == CHOOSE r \in found : TRUE
             IN  [ok |-> TRUE, block |-> blk, year |-> year, stage |-> row.stage,
                  level_m |-> row.level_m, source |-> SOURCE]

\* get_level without the condition on the year: the earliest record of the block
GetLevelAnyYear(d, blk, year) ==
    LET found == {r \in d : Lower(r.block) = Lower(blk)}
    IN  IF found = {}
        THEN [ok |-> FALSE,
              msg |-> "insufficient data for " \o blk \o " " \o NatStr(year)]
        ELSE LET row == CHOOSE r \in found : \A x \in found : r.year <= x.year
             IN  [ok |-> TRUE, block |-> blk, year |-> year,
                  level_m |-> row.level_m, source |-> SOURCE]

get_level(d, blk, year) ==
    LET found == {r \in d : Lower(r.block) = Lower(blk) /\ r.year = year}
    IN  IF found = {}
        THEN [ok |-> FALSE,
              msg |-> "insufficient data for " \o blk \o " " \o NatStr(year)]
        ELSE LET row == CHOOSE r \in found : TRUE
             IN  [ok |-> TRUE, block |-> blk, year |-> year,
                  level_m |-> row.level_m, source |-> SOURCE]

(***************************************************************************)
(* Number formatting: "{:.2f}" and "{:+.2f}".                              *)
(***************************************************************************)
Abs(n) == IF n < 0 THEN 0 - n ELSE n

TwoDigits(n) == IF n < 10 THEN "0" \o NatStr(n) ELSE NatStr(n)

\* f"{x:.2f}" of a level x given in hundredths
Fmt2(c) ==
    (IF c < 0 THEN "-" ELSE "") \o NatStr(Abs(c) \div 100) \o "."
    \o TwoDigits(Abs(c) % 100)

\* num/den rounded to the nearest integer; the levels of the model are
\* chosen so that no quotient falls exactly between two hundredths
RoundDiv(num, den) == (2 * Abs(num) + den) \div (2 * den)

\* f"{s:+.2f}" of a slope s = num/den, num in hundredths
FmtSlope(s) ==
    (IF s.num < 0 THEN "-" ELSE "+") \o Fmt2(RoundDiv(s.num, s.den))

TABLE_HEADER == "Year | Level (m)"

TABLE_HEAD == "Year | Level (m)\n-----|----------\n"

RECURSIVE TrendRows(_)
TrendRows(tt) ==
    IF Len(tt) = 0 THEN <<>>
    ELSE <<NatStr(Head(tt).year) \o " | " \o Fmt2(Head(tt).level_m)>>
         \o TrendRows(Tail(tt))

(***************************************************************************)
(* PassageIndex: backend/tools/rag_tool.py.                                *)
(***************************************************************************)
_DOCS == <<
    [source |-> "glossary.txt",
     text |-> "Over-exploited: Annual groundwater extraction exceeds annual recharge; strict regulation and recharge are needed. Critical: Extraction close to recharge; adopt conservation and artificial recharge (check-dams, percolation tanks). Safe: Extraction comfortably below recharge. Monitor and use efficient irrigation practices."],
    [source |-> "interventions.txt",
     text |-> "Interventions: Check-dams and percolation tanks in upper catchments; roof-top rainwater harvesting in settlements and public buildings; water budgeting at panchayat level; crop planning to reduce water stress. Citations: CGWB GWRA-2022; Master Plan for Artificial Recharge 2020."] >>

SeqToSet(sq) == {sq[i] : i \in 1..Len(sq)}

\* count of the distinct query tokens of 3 or more characters found in text
_score(q, text) ==
    LET toks == {t \in SeqToSet(Split(Lower(q))) : Len(t) >= 3}
        low  == Lower(text)
    IN  Cardinality({t \in toks : Contains(low, t)})

\* sorted(..., key=score, reverse=True): a stable sort, so documents of
\* equal score keep the order of _DOCS
RECURSIVE SortByScore(_)
SortByScore(ds) ==
    IF Len(ds) = 0 THEN <<>>
    ELSE LET best == CHOOSE i \in 1..Len(ds) :
                        /\ \A j \in 1..Len(ds) : ds[j].score <= ds[i].score
                        /\ \A j \in 1..(i - 1) : ds[j].score < ds[i].score
             rest == [j \in 1..(Len(ds) - 1) |-> IF j < best THEN ds[j] ELSE ds[j + 1]]
         IN  <<ds[best]>> \o SortByScore(rest)

RAG_K == 3

search(q, k) ==
    LET scored == SortByScore([i \in 1..Len(_DOCS) |->
                      [text |-> _DOCS[i].text, source |-> _DOCS[i].source,
                       score |-> _score(q, _DOCS[i].text)]])
        top    == SelectSeq(scored, LAMBDA s : s.score > 0)
    IN  [i \in 1..(IF Len(top) < k THEN Len(top) ELSE k) |->
            [text |-> top[i].text, source |-> top[i].source]]

(***************************************************************************)
(* ResponseSanitizer: _strip_spurious_body_sources.                        *)
(***************************************************************************)
MARKER == "**Citations:**"

\* _FOOTER_RX.search(txt): position of the first marker, any case, or 0
FooterPos(txt) == FindFrom(Lower(txt), Lower(MARKER), 1)

\* ^ under re.M
LineStart(s, p) == p = 1 \/ Chr(s, p - 1) = "\n"

\* where .* stops: the next newline, or the position after the text
EndOfLine(s, i) ==
    LET j == FindFrom(s, "\n", i)
    IN  IF j = 0 THEN Len(s) + 1 ELSE j

\* the tail \s*:\s*.*(?:\n(?!\S)|$) matched from position k: the position
\* after the match, or 0
LineTail(s, k) ==
    LET c == SkipSpaces(s, k)
    IN  IF ~MatchAt(s, c, ":") THEN 0
        ELSE LET e == EndOfLine(s, SkipSpaces(s, c + 1))
             IN  IF e <= Len(s) /\ (e + 1 > Len(s) \/ IsSpace(Chr(s, e + 1)))
                 THEN e + 1 ELSE e

\* ^\s*(?:[-*]\s*)?(?:kw1|kw2|...)\s*:\s*.*(?:\n(?!\S)|$) under re.I and re.M
\* matched at position p: the position after the match, or 0.  kws are the
\* alternatives in lower case, in the order the pattern tries them.
RECURSIVE KeywordTail(_, _, _)
KeywordTail(s, w, kws) ==
    IF Len(kws) = 0 THEN 0
    ELSE IF MatchAt(Lower(s), w, Head(kws)) /\ LineTail(s, w + Len(Head(kws))) > 0
    THEN LineTail(s, w + Len(Head(kws)))
    ELSE KeywordTail(s, w, Tail(kws))

KeywordLineAt(s, p, kws) ==
    IF ~LineStart(s, p) THEN 0
    ELSE LET a == SkipSpaces(s, p)
             w == IF a <= Len(s) /\ Chr(s, a) \in {"-", "*"}
                  THEN SkipSpaces(s, a + 1) ELSE a
         IN  KeywordTail(s, w, kws)

\* re.sub(pattern, "", s) for the pattern above: a match starts at the
\* start of a line only, so where there is none the text is copied up to
\* the start of the next line
RECURSIVE RemoveKeywordLines(_, _, _)
RemoveKeywordLines(s, kws, p) ==
    IF p > Len(s) THEN ""
    ELSE LET e == KeywordLineAt(s, p, kws)
             n == EndOfLine(s, p)
         IN  IF e > 0 THEN RemoveKeywordLines(s, kws, e)
             ELSE IF n > Len(s) THEN SubSeq(s, p, Len(s))
             ELSE SubSeq(s, p, n) \o RemoveKeywordLines(s, kws, n + 1)

RECURSIVE SkipNewlines(_, _)
SkipNewlines(s, i) ==
    IF i <= Len(s) /\ Chr(s, i) = "\n" THEN SkipNewlines(s, i + 1) ELSE i

\* re.sub(r"\n{3,}", "\n\n", s)
RECURSIVE CollapseNewlines(_, _)
CollapseNewlines(s, p) ==
    IF p > Len(s) THEN ""
    ELSE IF Chr(s, p) = "\n"
    THEN LET e == SkipNewlines(s, p)
         IN  (IF e - p >= 3 THEN "\n\n" ELSE SubSeq(s, p, e - 1))
             \o CollapseNewlines(s, e)
    ELSE LET e == EndOfLine(s, p)
         IN  SubSeq(s, p, e - 1) \o CollapseNewlines(s, e)

\* the sanitizer without its second substitution (Source / Sources lines)
StripKeepingSourceLines(txt) ==
    LET m      == FooterPos(txt)
        body0  == IF m > 0 THEN SubSeq(txt, 1, m - 1) ELSE txt
        footer == IF m > 0 THEN SubSeq(txt, m, Len(txt)) ELSE ""
        body1  == RemoveKeywordLines(body0, <<"citations">>, 1)
        body3  == Strip(CollapseNewlines(body1, 1))
    IN  Strip(body3 \o (IF footer # "" THEN "\n\n" \o footer ELSE ""))

_strip_spurious_body_sources(txt) ==
    LET m      == FooterPos(txt)
        body0  == IF m > 0 THEN SubSeq(txt, 1, m - 1) ELSE txt
        footer == IF m > 0 THEN SubSeq(txt, m, Len(txt)) ELSE ""
        body1  == RemoveKeywordLines(body0, <<"citations">>, 1)
        body2  == RemoveKeywordLines(body1, <<"source", "sources">>, 1)
        body3  == Strip(CollapseNewlines(body2, 1))
    IN  Strip(body3 \o (IF footer # "" THEN "\n\n" \o footer ELSE ""))

(***************************************************************************)
(* AnswerComposer: _compose_llm, _looks_like_error, _compose_fallback and  *)
(* the last lines of ask_agent.                                            *)
(***************************************************************************)
\* What client.chat.completions.create can do: return a message with a text
\* ("ok"), return a message without content ("none", the .strip() then
\* raises), raise AuthenticationError ("auth"), raise another APIStatusError
\* ("status"), exceed the deadline ("timeout"), raise anything else ("other").
LlmFailureKinds == {"none", "auth", "status", "timeout", "other"}

LlmResult(kind, text, code) == [kind |-> kind, text |-> text, code |-> code]

NoLlm == LlmResult("not called", "", 0)

\* _compose_llm without its last handler (except Exception)
ComposeLlmTwoHandlers(r) ==
    IF r.kind = "ok" THEN [raised |-> FALSE, text |-> Strip(r.text)]
    ELSE IF r.kind = "auth"
    THEN [raised |-> FALSE,
          text |-> "Authentication error: Missing/invalid OPENAI_API_KEY."]
    ELSE IF r.kind = "status"
    THEN [raised |-> FALSE, text |-> "OpenAI API error (" \o NatStr(r.code) \o ")."]
    ELSE [raised |-> TRUE, text |-> ""]

\* the text _compose_llm returns, and whether an exception leaves it
_compose_llm(r) ==
    IF r.kind = "ok" THEN [raised |-> FALSE, text |-> Strip(r.text)]
    ELSE IF r.kind = "auth"
    THEN [raised |-> FALSE,
          text |-> "Authentication error: Missing/invalid OPENAI_API_KEY."]
    ELSE IF r.kind = "status"
    THEN [raised |-> FALSE, text |-> "OpenAI API error (" \o NatStr(r.code) \o ")."]
    ELSE [raised |-> FALSE, text |-> "LLM error: " \o r.text]

\* _looks_like_error that does not know the third message
LooksLikeErrorTwoKinds(text) ==
    LET s == Lower(Strip(text))
    IN  Contains(s, "authentication error") \/ Contains(s, "openai api error")

_looks_like_error(text) ==
    LET s == Lower(Strip(text))
    IN  \/ Contains(s, "authentication error")
        \/ Contains(s, "openai api error")
        \/ Contains(s, "llm error")

\* sorted(set(cs))
RECURSIVE SortStrings(_)
SortStrings(S) ==
    IF S = {} THEN <<>>
    ELSE LET m == CHOOSE x \in S : \A y \in S : x = y \/ StrLess(x, y)
         IN  <<m>> \o SortStrings(S \ {m})

SortedSet(cs) == SortStrings(SeqToSet(cs))

\* the footer both composers append
CitationsLine(cs) == MARKER \o " " \o Join(SortedSet(cs), " | ")

_compose_fallback(outs, cites, table_md) ==
    LET parts == <<"**Answer**">> \o outs
                 \o (IF table_md # "" /\ ~Contains(Join(outs, "\n\n"), TABLE_HEADER)
                     THEN <<"**Tiny table**\n" \o table_md>> ELSE <<>>)
                 \o (IF Len(cites) > 0 THEN <<"\n" \o CitationsLine(cites)>> ELSE <<>>)
    IN  Strip(Join(parts, "\n\n"))

\* ask_agent, step 4: clean and finalize the text of a successful call
FinalizeLlm(text, cites, table_md) ==
    LET a1 == _strip_spurious_body_sources(text)
        a2 == IF table_md # "" /\ ~Contains(a1, TABLE_HEADER)
              THEN a1 \o "\n\n**Tiny table**\n" \o table_md ELSE a1
    IN  IF Len(cites) > 0 THEN a2 \o "\n\n" \o CitationsLine(cites) ELSE a2

(***************************************************************************)
(* The inputs: the table, the queries and what the collaborators do.       *)
(***************************************************************************)
Row(b, y, l, st) == [block |-> b, year |-> y, level_m |-> l, stage |-> st]

\* yearly records of Block A, 2015 -> 12.1 m ... 2024 -> 18.4 m, and one
\* record of Block B
SampleStore ==
    { Row("Block A", 2015, 1210, "Safe"),
      Row("Block A", 2016, 1290, "Safe"),
      Row("Block A", 2017, 1340, "Semi-critical"),
      Row("Block A", 2018, 1410, "Semi-critical"),
      Row("Block A", 2019, 1470, "Semi-critical"),
      Row("Block A", 2020, 1550, "Critical"),
      Row("Block A", 2021, 1620, "Critical"),
      Row("Block A", 2022, 1690, "Critical"),
      Row("Block A", 2023, 1760, "Over-exploited"),
      Row("Block A", 2024, 1840, "Over-exploited"),
      Row("Block B", 2022, 970, "Safe") }

Verbs == {"", "Compare", "trend", "Stage", "what"}

YearPhrases == {"", "2019", "2030", "2022", "2019 vs 2024", "2024 vs 2019",
                "2019 2019", "2019 vs 2030", "2030 vs 2019", "2030 2031",
                "2015~2024", "2019 2019 2024", "2023 2030"}

EntityPhrases == {"", "for Block A", "for b", "block z"}

NonEmpty(parts) == SelectSeq(parts, LAMBDA x : x # "")

\* the three worked examples of the specification
TREND_EXAMPLE == "2015~2024 groundwater trend for Block A?"

STAGE_EXAMPLE == "Stage of extraction for Block B in 2022?"

COMPARE_EXAMPLE == "Compare 2019 vs 2024 groundwater level for Block A."

Queries ==
    {Join(NonEmpty(<<v, y, e>>), " ") :
        v \in Verbs, y \in YearPhrases, e \in EntityPhrases}
    \cup {TREND_EXAMPLE, STAGE_EXAMPLE, COMPARE_EXAMPLE}

LlmTexts ==
    { "Levels are rising.",
      "- Levels are rising.\nSource: SQLite gw_levels\n\n**Citations:** INGRES",
      "Sorry, an LLM error occurred upstream.",
      "Latest reading:\nYear | Level (m)\n2024 | 18.4" }

LlmResults ==
    {LlmResult("ok", t, 0) : t \in LlmTexts}
    \cup { LlmResult("none", "'NoneType' object has no attribute 'strip'", 0),
           LlmResult("auth", "", 401),
           LlmResult("status", "", 429),
           LlmResult("timeout", "Request timed out.", 0),
           LlmResult("other", "Connection error.", 0) }

RagBehaviours == {"ok", "raise"}

RAG_ERROR == "index unavailable"

NoCalls == [sql |-> 0, rag |-> 0, llm |-> 0]

Init ==
    /\ pc = "start"
    /\ query \in Queries
    /\ db = SampleStore
    /\ api_key \in BOOLEAN
    /\ intent = ""
    /\ block = ""
    /\ years = <<>>
    /\ tool_outputs = <<>>
    /\ citations = <<>>
    /\ forced_table_md = ""
    /\ rag_hits = <<>>
    /\ rag_failed = FALSE
    /\ llm = NoLlm
    /\ answer = ""
    /\ outcome = "none"
    /\ calls = NoCalls

(***************************************************************************)
(* ask_agent, one action per stretch of code between two outside calls.    *)
(***************************************************************************)
\* lines 114-119
Route ==
    /\ pc = "start"
    /\ intent' = _detect_intent(query)
    /\ block' = _extract_block(query)
    /\ years' = ExtractYears(query)
    /\ pc' = "sql"
    /\ UNCHANGED <<query, db, api_key, tool_outputs, citations, forced_table_md,
                   rag_hits, rag_failed, llm, answer, outcome, calls>>

\* lines 122-133
TrendStep ==
    /\ pc = "sql"
    /\ intent = "trend" /\ Len(years) >= 2
    /\ LET out == get_trend(db, block, years[1], years[2])
       IN  IF out.ok
           THEN LET tbl == TABLE_HEAD \o Join(TrendRows(out.tiny_table), "\n")
                IN  /\ forced_table_md' = tbl
                    /\ tool_outputs' = Append(tool_outputs,
                          "Trend for " \o block \o " " \o NatStr(out.start) \o "~"
                          \o NatStr(out.end) \o ": d~=" \o FmtSlope(out.slope_per_year)
                          \o " m/yr; latest stage " \o out.latest_stage \o ".\n" \o tbl)
                    /\ citations' = Append(citations,
                          "Source: " \o out.source \o "; Years: " \o NatStr(out.start)
                          \o "~" \o NatStr(out.end))
           ELSE /\ tool_outputs' = Append(tool_outputs, out.msg)
                /\ UNCHANGED <<citations, forced_table_md>>
    /\ calls' = [calls EXCEPT !.sql = @ + 1]
    /\ pc' = "rag"
    /\ UNCHANGED <<query, db, api_key, intent, block, years, rag_hits, rag_failed,
                   llm, answer, outcome>>

\* lines 135-142
StageStep ==
    /\ pc = "sql"
    /\ intent = "stage_lookup" /\ Len(years) >= 1
    /\ LET y   == years[1]
           out == get_stage(db, block, y)
       IN  IF out.ok
           THEN /\ tool_outputs' = Append(tool_outputs,
                      "Stage for " \o block \o " in " \o NatStr(y) \o ": " \o out.stage
                      \o " (level " \o Fmt2(out.level_m) \o " m).")
                /\ citations' = Append(citations,
                      "Source: " \o out.source \o "; Year: " \o NatStr(y))
           ELSE /\ tool_outputs' = Append(tool_outputs, out.msg)
                /\ UNCHANGED citations
    /\ calls' = [calls EXCEPT !.sql = @ + 1]
    /\ pc' = "rag"
    /\ UNCHANGED <<query, db, api_key, intent, block, years, forced_table_md,
                   rag_hits, rag_failed, llm, answer, outcome>>

\* a row that shows a zero level for a year without record
CompareRowZero(y, v) ==
    IF v.ok THEN NatStr(y) \o " | " \o Fmt2(v.level_m) ELSE NatStr(y) \o " | 0.00"

\* lines 147-148: a row of the comparison table
CompareRow(y, v) ==
    IF v.ok THEN NatStr(y) \o " | " \o Fmt2(v.level_m) ELSE NatStr(y) \o " | ^"

\* lines 152-153 with one citation for the pair, added when both resolve
CompareCitationsBoth(v1, v2, y1, y2) ==
    IF v1.ok /\ v2.ok
    THEN <<"Source: " \o v1.source \o "; Years: " \o NatStr(y1) \o "~" \o NatStr(y2)>>
    ELSE <<>>

\* lines 152-153: one citation per year that resolved
CompareCitations(v1, v2, y1, y2) ==
    (IF v1.ok THEN <<"Source: " \o v1.source \o "; Year: " \o NatStr(y1)>> ELSE <<>>)
    \o (IF v2.ok THEN <<"Source: " \o v2.source \o "; Year: " \o NatStr(y2)>> ELSE <<>>)

\* lines 144-158
CompareStep ==
    /\ pc = "sql"
    /\ intent = "compare" /\ Len(years) >= 2
    /\ LET y1  == years[1]
           y2  == years[2]
           v1  == get_level(db, block, y1)
           v2  == get_level(db, block, y2)
           tbl == TABLE_HEAD \o Join(<<CompareRow(y1, v1), CompareRow(y2, v2)>>, "\n")
       IN  /\ forced_table_md' = tbl
           /\ tool_outputs' =
                 tool_outputs \o <<"Comparison:\n" \o tbl>>
                 \o (IF v1.ok /\ v2.ok /\ y2 > y1
                     THEN <<"Estimated d~="
                            \o FmtSlope([num |-> v2.level_m - v1.level_m, den |-> y2 - y1])
                            \o " m/yr over " \o NatStr(y1) \o "~" \o NatStr(y2) \o ".">>
                     ELSE <<>>)
                 \o (IF ~(v1.ok \/ v2.ok)
                     THEN <<"insufficient data for requested years.">> ELSE <<>>)
           /\ citations' = citations \o CompareCitations(v1, v2, y1, y2)
    /\ calls' = [calls EXCEPT !.sql = @ + 2]
    /\ pc' = "rag"
    /\ UNCHANGED <<query, db, api_key, intent, block, years, rag_hits, rag_failed,
                   llm, answer, outcome>>

\* none of the three branches of lines 122-158 is taken
NoSqlStep ==
    /\ pc = "sql"
    /\ ~(intent = "trend" /\ Len(years) >= 2)
    /\ ~(intent = "stage_lookup" /\ Len(years) >= 1)
    /\ ~(intent = "compare" /\ Len(years) >= 2)
    /\ pc' = "rag"
    /\ UNCHANGED <<query, db, api_key, intent, block, years, tool_outputs, citations,
                   forced_table_md, rag_hits, rag_failed, llm, answer, outcome, calls>>

\* lines 166-167: the fragment and the citations of the passages found
RECURSIVE PolicyLines(_)
PolicyLines(hits) ==
    IF Len(hits) = 0 THEN <<>>
    ELSE <<"- " \o Head(hits).text \o " (source: " \o Head(hits).source \o ")">>
         \o PolicyLines(Tail(hits))

RECURSIVE DocCitations(_)
DocCitations(hits) ==
    IF Len(hits) = 0 THEN <<>>
    ELSE <<"Doc: " \o Head(hits).source>> \o DocCitations(Tail(hits))

\* lines 161-164 without the try/except: the exception leaves ask_agent
RagGuardMissing(behaviour, q) ==
    IF behaviour = "raise"
    THEN [raised |-> TRUE, failed |-> TRUE, hits |-> <<>>, note |-> <<>>]
    ELSE [raised |-> FALSE, failed |-> FALSE, hits |-> search(q, RAG_K), note |-> <<>>]

\* lines 161-164: the search inside its try/except
RagGuard(behaviour, q) ==
    IF behaviour = "raise"
    THEN [raised |-> FALSE, failed |-> TRUE, hits |-> <<>>,
          note |-> <<"(RAG error suppressed: " \o RAG_ERROR \o ")">>]
    ELSE [raised |-> FALSE, failed |-> FALSE, hits |-> search(q, RAG_K), note |-> <<>>]

\* lines 160-167
RagStep(behaviour) ==
    /\ pc = "rag"
    /\ LET r == RagGuard(behaviour, query)
       IN  /\ rag_hits' = r.hits
           /\ rag_failed' = r.failed
           /\ calls' = [calls EXCEPT !.rag = @ + 1]
           /\ IF r.raised
              THEN /\ outcome' = "raised"
                   /\ pc' = "done"
                   /\ UNCHANGED <<tool_outputs, citations>>
              ELSE /\ tool_outputs' =
                         tool_outputs \o r.note
                         \o (IF Len(r.hits) > 0
                             THEN <<"Policy:\n" \o Join(PolicyLines(r.hits), "\n")>>
                             ELSE <<>>)
                   /\ citations' = citations \o DocCitations(r.hits)
                   /\ pc' = "compose"
                   /\ UNCHANGED outcome
    /\ UNCHANGED <<query, db, api_key, intent, block, years, forced_table_md,
                   llm, answer>>

\* lines 178-179
ComposeLocal ==
    /\ pc = "compose"
    /\ ~api_key
    /\ answer' = _compose_fallback(tool_outputs, citations, forced_table_md)
    /\ outcome' = "returned"
    /\ pc' = "done"
    /\ UNCHANGED <<query, db, api_key, intent, block, years, tool_outputs, citations,
                   forced_table_md, rag_hits, rag_failed, llm, calls>>

\* lines 182-194 with a second call to the backend after a failed one
ComposeLlmRetry(r) ==
    /\ pc = "compose"
    /\ api_key
    /\ llm' = r
    /\ calls' = [calls EXCEPT !.llm = @ + (IF r.kind = "ok" THEN 1 ELSE 2)]
    /\ LET a == _compose_llm(r)
       IN  /\ outcome' = "returned"
           /\ answer' = IF _looks_like_error(a.text)
                        THEN _compose_fallback(tool_outputs, citations, forced_table_md)
                        ELSE FinalizeLlm(a.text, citations, forced_table_md)
    /\ pc' = "done"
    /\ UNCHANGED <<query, db, api_key, intent, block, years, tool_outputs, citations,
                   forced_table_md, rag_hits, rag_failed>>

\* lines 182-194
ComposeLlm(r) ==
    /\ pc = "compose"
    /\ api_key
    /\ llm' = r
    /\ calls' = [calls EXCEPT !.llm = @ + 1]
    /\ LET a == _compose_llm(r)
       IN  IF a.raised
           THEN /\ outcome' = "raised"
                /\ UNCHANGED answer
           ELSE /\ outcome' = "returned"
                /\ answer' = IF _looks_like_error(a.text)
                             THEN _compose_fallback(tool_outputs, citations, forced_table_md)
                             ELSE FinalizeLlm(a.text, citations, forced_table_md)
    /\ pc' = "done"
    /\ UNCHANGED <<query, db, api_key, intent, block, years, tool_outputs, citations,
                   forced_table_md, rag_hits, rag_failed>>

Next ==
    \/ Route
    \/ TrendStep
    \/ StageStep
    \/ CompareStep
    \/ NoSqlStep
    \/ \E b \in RagBehaviours : RagStep(b)
    \/ ComposeLocal
    \/ \E r \in LlmResults : ComposeLlm(r)

Spec == Init /\ [][Next]_vars

(***************************************************************************)
(* The router on its own: every query of at most MaxWords words.           *)
(***************************************************************************)
MaxWords == 3

RouterVocab == {"Compare", "vs", "trend", "from", "to", "2019", "2019-2024",
                "stage", "what", "block", "a", "Ab", "for"}

RouterQueries ==
    {Join(ws, " ") : ws \in UNION {[1..k -> RouterVocab] : k \in 0..MaxWords}}

InitRouter ==
    /\ pc = "start"
    /\ query \in RouterQueries
    /\ db = SampleStore
    /\ api_key = FALSE
    /\ intent = ""
    /\ block = ""
    /\ years = <<>>
    /\ tool_outputs = <<>>
    /\ citations = <<>>
    /\ forced_table_md = ""
    /\ rag_hits = <<>>
    /\ rag_failed = FALSE
    /\ llm = NoLlm
    /\ answer = ""
    /\ outcome = "none"
    /\ calls = NoCalls

NextRouter == Route

SpecRouter == InitRouter /\ [][NextRouter]_vars

(***************************************************************************)
(* The backend-driven path on its own: two requests, the backend returning *)
(* every text of at most MaxPieces pieces.                                 *)
(***************************************************************************)
MaxPieces == 4

Pieces == {"Level rose.", "Source: CGWB", "Citations: X", "**Citations:** INGRES",
           "\n", " ", "- "}

BackendTexts ==
    {Join(ps, "") : ps \in UNION {[1..k -> Pieces] : k \in 0..MaxPieces}}

BackendResults == {LlmResult("ok", t, 0) : t \in BackendTexts}

SanitizerQueries == {"hello", "Stage 2022 block b"}

InitSanitizer ==
    /\ pc = "start"
    /\ query \in SanitizerQueries
    /\ db = SampleStore
    /\ api_key = TRUE
    /\ intent = ""
    /\ block = ""
    /\ years = <<>>
    /\ tool_outputs = <<>>
    /\ citations = <<>>
    /\ forced_table_md = ""
    /\ rag_hits = <<>>
    /\ rag_failed = FALSE
    /\ llm = NoLlm
    /\ answer = ""
    /\ outcome = "none"
    /\ calls = NoCalls

NextSanitizer ==
    \/ Route
    \/ StageStep
    \/ NoSqlStep
    \/ RagStep("ok")
    \/ \E r \in BackendResults : ComposeLlm(r)

SpecSanitizer == InitSanitizer /\ [][NextSanitizer]_vars

(***************************************************************************)
(* Vocabulary of the properties.                                           *)
(***************************************************************************)
\* the lines of a text (the text split at its newlines)
RECURSIVE LinesFrom(_, _)
LinesFrom(s, i) ==
    LET e == EndOfLine(s, i)
    IN  IF e > Len(s) THEN <<SubSeq(s, i, Len(s))>>
        ELSE <<SubSeq(s, i, e - 1)>> \o LinesFrom(s, e + 1)

Lines(s) == LinesFrom(s, 1)

LineSet(s) == SeqToSet(Lines(s))

\* the request went down the backend-driven path: the call returned a text
\* and the text was not taken for an error message
BackendPathDone ==
    /\ pc = "done"
    /\ llm.kind = "ok"
    /\ ~_looks_like_error(Strip(llm.text))

\* the text before the first footer marker
BodyOf(txt) ==
    IF FooterPos(txt) > 0 THEN SubSeq(txt, 1, FooterPos(txt) - 1) ELSE txt

\* the store has a record of the entity for that year
Resolves(y) == \E r \in db : Lower(r.block) = Lower(block) /\ r.year = y

StoreCitations == {c \in SeqToSet(citations) : StartsWith(c, "Source: " \o SOURCE \o ";")}

\* a citation of the store covers the year y: it names y, or a span around y
Covers(c, y) ==
    LET ys == ExtractYears(c)
    IN  \/ Len(ys) = 1 /\ StartsWith(c, "Source: " \o SOURCE \o "; Year: ") /\ ys[1] = y
        \/ Len(ys) = 2 /\ StartsWith(c, "Source: " \o SOURCE \o "; Years: ")
                       /\ ys[1] <= y /\ y <= ys[2]

\* a line of a fragment that states a number taken from the store
IsFactLine(L) ==
    \/ StartsWith(L, "Trend for ")
    \/ StartsWith(L, "Stage for ")
    \/ StartsWith(L, "Estimated ")
    \/ /\ YearAt(L, 1) /\ MatchAt(L, 5, " | ") /\ Len(L) > 7 /\ IsDigit(Chr(L, 8))

\* the fragments that passage retrieval adds
IsRetrievalFragment(f) ==
    StartsWith(f, "Policy:\n") \/ StartsWith(f, "(RAG error suppressed: ")

(***************************************************************************)
(* C1. ask_agent never raises: whatever the query, whether or not the      *)
(* lookups find records, whether or not the passage search raises, and     *)
(* whatever the backend does (returns, raises, runs out of time), no       *)
(* exception leaves the call, and the call ends by returning a text.       *)
(***************************************************************************)
NeverRaises ==
    /\ outcome # "raised"
    /\ pc = "done" => outcome = "returned"
    /\ pc # "done" => outcome = "none"

NeverRaisesWitness ==
    /\ pc = "done"
    /\ outcome = "returned"
    /\ rag_failed
    /\ llm.kind = "timeout"
    /\ intent = "trend"
    /\ Len(tool_outputs) > 0
    /\ StartsWith(tool_outputs[1], "insufficient data")

(***************************************************************************)
(* C2. With a credential configured, a failed backend call (no content,    *)
(* authentication error, status error, deadline exceeded, any other        *)
(* exception) makes ask_agent return exactly the text of the deterministic *)
(* composer for the same fragments, table and citations.                   *)
(***************************************************************************)
BackendFailureFallsBack ==
    (pc = "done" /\ api_key /\ llm.kind \in LlmFailureKinds) =>
        /\ answer = _compose_fallback(tool_outputs, citations, forced_table_md)
        /\ StartsWith(answer, "**Answer**")

BackendFailureWitness ==
    /\ pc = "done"
    /\ api_key
    /\ llm.kind = "other"
    /\ forced_table_md # ""
    /\ Len(citations) > 1
    /\ answer = _compose_fallback(tool_outputs, citations, forced_table_md)

(***************************************************************************)
(* C3. The answer of the backend-driven path contains the substring        *)
(* "**Citations:**" at most once, whatever text the backend returned.      *)
(***************************************************************************)
AtMostOneCitationsMarker ==
    BackendPathDone => Count(answer, MARKER) <= 1

(***************************************************************************)
(* C4. Grounding: when composition starts, every line of the bundle that   *)
(* states a number of the store (a trend line, a stage line, an estimated  *)
(* slope, a table row with a level) comes with a citation of the store     *)
(* that covers each year the line names.                                   *)
(***************************************************************************)
GroundingInvariant ==
    pc = "compose" =>
        \A i \in 1..Len(tool_outputs) :
            \A L \in LineSet(tool_outputs[i]) :
                IsFactLine(L) =>
                    \A y \in SeqToSet(ExtractYears(L)) :
                        \E c \in StoreCitations : Covers(c, y)

GroundingWitness ==
    /\ pc = "compose"
    /\ intent = "compare"
    /\ Len(years) >= 2
    /\ Resolves(years[1])
    /\ ~Resolves(years[2])
    /\ Cardinality(StoreCitations) = 1

(***************************************************************************)
(* C5. A query that contains " vs " or starts with "compare " (in any      *)
(* case) is classified compare, also when it contains "trend", "from" and  *)
(* "to", or two or more years.                                             *)
(***************************************************************************)
CompareOverridesTrend ==
    (pc = "sql" /\ (Contains(Lower(query), " vs ") \/ StartsWith(Lower(query), "compare ")))
        => intent = "compare"

CompareOverridesTrendWitness ==
    /\ pc = "sql"
    /\ Contains(Lower(query), " vs ")
    /\ Contains(Lower(query), "trend")
    /\ Len(years) >= 2
    /\ intent = "compare"

(***************************************************************************)
(* C6. A query with two distinct years and the word "trend" (or "from"     *)
(* and "to") is classified trend.  As stated this fails on the queries     *)
(* that the compare rule takes first; it holds of the queries that contain *)
(* neither "compare" nor " vs ".                                           *)
(***************************************************************************)
TrendWording(ql) ==
    /\ Cardinality(SeqToSet(FindYears(ql))) >= 2
    /\ Contains(ql, "trend") \/ (Contains(ql, "from") /\ Contains(ql, "to"))

TrendClassifiedAsStated ==
    (pc = "sql" /\ TrendWording(Lower(query))) => intent = "trend"

TrendClassifiedUnlessCompare ==
    (/\ pc = "sql"
     /\ TrendWording(Lower(query))
     /\ ~Contains(Lower(query), "compare")
     /\ ~Contains(Lower(query), " vs ")) => intent = "trend"

TrendClassifiedWitness ==
    /\ pc = "sql"
    /\ TrendWording(Lower(query))
    /\ Contains(Lower(query), "stage")
    /\ intent = "trend"

(***************************************************************************)
(* C7. A trend request whose range lookup returns no row.  As stated (the  *)
(* bundle handed to composition has the message as its sole fragment and   *)
(* no citation) this fails when passage retrieval adds to the bundle.  The *)
(* amended form: the lookup step leaves exactly that one fragment, no      *)
(* table and no citation; at composition the message is the first          *)
(* fragment, there is no table, every other fragment comes from passage    *)
(* retrieval and every citation is a "Doc:" citation.                      *)
(***************************************************************************)
EmptyTrendRequest ==
    /\ intent = "trend"
    /\ Len(years) >= 2
    /\ Len(_fetch_rows(db, block, years[1], years[2])) = 0

InsufficientTrendMsg ==
    "insufficient data for " \o block \o " " \o NatStr(years[1]) \o "-" \o NatStr(years[2])

EmptyTrendSoleFragment ==
    (pc = "compose" /\ EmptyTrendRequest) =>
        /\ tool_outputs = <<InsufficientTrendMsg>>
        /\ citations = <<>>

EmptyTrendBundle ==
    /\ (pc = "rag" /\ EmptyTrendRequest) =>
          /\ tool_outputs = <<InsufficientTrendMsg>>
          /\ citations = <<>>
          /\ forced_table_md = ""
    /\ (pc = "compose" /\ EmptyTrendRequest) =>
          /\ Len(tool_outputs) >= 1
          /\ tool_outputs[1] = InsufficientTrendMsg
          /\ \A i \in 2..Len(tool_outputs) : IsRetrievalFragment(tool_outputs[i])
          /\ forced_table_md = ""
          /\ \A c \in SeqToSet(citations) : StartsWith(c, "Doc: ")

EmptyTrendWitness ==
    /\ pc = "compose"
    /\ EmptyTrendRequest
    /\ Len(tool_outputs) = 2
    /\ Len(citations) >= 1

(***************************************************************************)
(* C8. A compare request of which exactly one year resolves.  As stated    *)
(* (the citation set has exactly one entry) this fails when passage        *)
(* retrieval adds "Doc:" citations.  The amended form: the table shows     *)
(* the dash in the row of the unresolved year and the level in the row of  *)
(* the resolved year, and the bundle has exactly one citation of the       *)
(* store, the one of the resolved year; its other citations are "Doc:"     *)
(* citations.                                                              *)
(***************************************************************************)
OneYearResolves ==
    /\ intent = "compare"
    /\ Len(years) >= 2
    /\ Resolves(years[1]) # Resolves(years[2])

LevelOf(y) == (CHOOSE r \in db : Lower(r.block) = Lower(block) /\ r.year = y).level_m

ExpectedRow(y) ==
    IF Resolves(y) THEN NatStr(y) \o " | " \o Fmt2(LevelOf(y)) ELSE NatStr(y) \o " | ^"

OneYearTable ==
    /\ Len(Lines(forced_table_md)) = 4
    /\ Lines(forced_table_md)[1] = TABLE_HEADER
    /\ Lines(forced_table_md)[3] = ExpectedRow(years[1])
    /\ Lines(forced_table_md)[4] = ExpectedRow(years[2])

OneYearSingleCitation ==
    (pc = "compose" /\ OneYearResolves) =>
        /\ OneYearTable
        /\ Cardinality(SeqToSet(citations)) = 1

OneYearSingleStoreCitation ==
    (pc = "compose" /\ OneYearResolves) =>
        /\ OneYearTable
        /\ StoreCitations =
              {"Source: " \o SOURCE \o "; Year: "
               \o NatStr(IF Resolves(years[1]) THEN years[1] ELSE years[2])}
        /\ \A c \in SeqToSet(citations) \ StoreCitations : StartsWith(c, "Doc: ")

OneYearWitness ==
    /\ pc = "compose"
    /\ OneYearResolves
    /\ ~Resolves(years[1])
    /\ Cardinality(SeqToSet(citations)) > 1

(***************************************************************************)
(* C9. Sanitization removes every bare line "Source: X" of the body (the   *)
(* text before the footer marker), and a line "**Citations:** X" of a      *)
(* backend text that holds the marker once is a line of the result.        *)
(***************************************************************************)
IsBareSourceLine(L) == StartsWith(Lower(Strip(L)), "source:")

SourceLinesRemoved ==
    BackendPathDone =>
        /\ \A L \in LineSet(BodyOf(answer)) : ~IsBareSourceLine(L)
        /\ Count(Lower(llm.text), Lower(MARKER)) = 1 =>
              \A L \in LineSet(Strip(llm.text)) :
                  StartsWith(L, MARKER) => L \in LineSet(answer)

SourceLinesRemovedWitness ==
    /\ BackendPathDone
    /\ \E L \in LineSet(BodyOf(Strip(llm.text))) : L = "Source: CGWB"
    /\ Count(Lower(llm.text), Lower(MARKER)) = 1
    /\ "**Citations:** INGRES" \in LineSet(Strip(llm.text))
    /\ "**Citations:** INGRES" \in LineSet(answer)

(***************************************************************************)
(* C10. Entity extraction is idempotent: applied to an entity it has       *)
(* produced, _extract_block returns that entity.                           *)
(***************************************************************************)
ExtractBlockIdempotent ==
    pc = "sql" => _extract_block(block) = block

(***************************************************************************)
(* C11. A trend request with two years whose range holds n >= 1 records    *)
(* reports the slope (last level - first level) / max(1, last year - first *)
(* year), to two decimals, and its tiny table lists the last min(5, n)     *)
(* records by ascending year; the worked example gives +0.70 m/yr and the  *)
(* rows of 2020 to 2024.                                                   *)
(***************************************************************************)
RangeRows ==
    {r \in db : /\ Lower(r.block) = Lower(block)
                /\ years[1] <= r.year
                /\ r.year <= years[2]}

TrendRequestWithRows ==
    /\ pc \in {"rag", "compose", "done"}
    /\ intent = "trend"
    /\ Len(years) >= 2
    /\ RangeRows # {}

EarliestRow == CHOOSE r \in RangeRows : \A x \in RangeRows : r.year <= x.year

LatestRow == CHOOSE r \in RangeRows : \A x \in RangeRows : x.year <= r.year

ExpectedSlope ==
    [num |-> LatestRow.level_m - EarliestRow.level_m,
     den |-> IF LatestRow.year - EarliestRow.year > 1
             THEN LatestRow.year - EarliestRow.year ELSE 1]

ExpectedTableSize == IF Cardinality(RangeRows) < 5 THEN Cardinality(RangeRows) ELSE 5

\* the record that has exactly k records of the range after it
RowFromEnd(k) ==
    CHOOSE r \in RangeRows : Cardinality({x \in RangeRows : x.year > r.year}) = k

TrendSlopeAndTable ==
    TrendRequestWithRows =>
        /\ Contains(tool_outputs[1], ": d~=" \o FmtSlope(ExpectedSlope) \o " m/yr;")
        /\ Len(Lines(forced_table_md)) = 2 + ExpectedTableSize
        /\ \A i \in 1..ExpectedTableSize :
              Lines(forced_table_md)[2 + i] =
                  NatStr(RowFromEnd(ExpectedTableSize - i).year) \o " | "
                  \o Fmt2(RowFromEnd(ExpectedTableSize - i).level_m)
        /\ query = TREND_EXAMPLE =>
              /\ Contains(tool_outputs[1], ": d~=+0.70 m/yr;")
              /\ Len(Lines(forced_table_md)) = 7
              /\ \A i \in 1..5 :
                    StartsWith(Lines(forced_table_md)[2 + i], NatStr(2019 + i) \o " | ")

TrendSlopeAndTableWitness ==
    /\ TrendRequestWithRows
    /\ query = TREND_EXAMPLE
    /\ Cardinality(RangeRows) = 10
    /\ Contains(tool_outputs[1], ": d~=+0.70 m/yr;")

(***************************************************************************)
(* C12. A compare request of which both years resolve, the second being    *)
(* the later one, reports the slope (level at years[1] - level at          *)
(* years[0]) / (years[1] - years[0]).  As stated (the answer carries two   *)
(* citations) this fails when passage retrieval adds "Doc:" citations, as  *)
(* it does on the worked example.  The amended form: the bundle holds the  *)
(* slope fragment and exactly two citations of the store, one per year,    *)
(* its other citations being "Doc:" citations; the deterministic answer    *)
(* shows the slope and both citations; the worked example gives +0.74.     *)
(***************************************************************************)
CompareBothResolve ==
    /\ intent = "compare"
    /\ Len(years) >= 2
    /\ Resolves(years[1])
    /\ Resolves(years[2])
    /\ years[2] > years[1]

CompareSlopeFragment ==
    "Estimated d~="
    \o FmtSlope([num |-> LevelOf(years[2]) - LevelOf(years[1]),
                 den |-> years[2] - years[1]])
    \o " m/yr over " \o NatStr(years[1]) \o "~" \o NatStr(years[2]) \o "."

YearCitation(y) == "Source: " \o SOURCE \o "; Year: " \o NatStr(y)

CompareTwoCitations ==
    (pc = "compose" /\ CompareBothResolve) =>
        /\ CompareSlopeFragment \in SeqToSet(tool_outputs)
        /\ Cardinality(SeqToSet(citations)) = 2

CompareTwoStoreCitations ==
    /\ (pc \in {"compose", "done"} /\ CompareBothResolve) =>
          /\ CompareSlopeFragment \in SeqToSet(tool_outputs)
          /\ StoreCitations = {YearCitation(years[1]), YearCitation(years[2])}
          /\ Cardinality(StoreCitations) = 2
          /\ \A c \in SeqToSet(citations) \ StoreCitations : StartsWith(c, "Doc: ")
          /\ query = COMPARE_EXAMPLE =>
                CompareSlopeFragment = "Estimated d~=+0.74 m/yr over 2019~2024."
    /\ (pc = "done" /\ CompareBothResolve /\ ~BackendPathDone) =>
          /\ Contains(answer, "\n\n" \o CompareSlopeFragment \o "\n\n")
          /\ \A y \in {years[1], years[2]} :
                Contains(SubSeq(answer, FooterPos(answer), Len(answer)), YearCitation(y))

CompareTwoStoreCitationsWitness ==
    /\ pc = "done"
    /\ query = COMPARE_EXAMPLE
    /\ CompareBothResolve
    /\ ~api_key
    /\ Cardinality(SeqToSet(citations)) > 2
    /\ Contains(answer, "Estimated d~=+0.74 m/yr over 2019~2024.")

(***************************************************************************)
(* C13. A stage_lookup request with a year: if the store has the record of *)
(* (entity, year) the first fragment is "Stage for <entity> in <year>:     *)
(* <stage> (level <level to 2 decimals> m)." and exactly one citation      *)
(* references that year, the citation of the store for that year; if not,  *)
(* the first fragment is "insufficient data for <entity> <year>" and no    *)
(* citation of the store exists.  The worked example gives "Stage for      *)
(* Block B in 2022: Safe (level 9.70 m)." and one citation naming 2022.    *)
(***************************************************************************)
StageRequest ==
    /\ pc \in {"rag", "compose", "done"}
    /\ intent = "stage_lookup"
    /\ Len(years) >= 1

StageOf(y) == (CHOOSE r \in db : Lower(r.block) = Lower(block) /\ r.year = y).stage

CitationsNaming(y) == {c \in SeqToSet(citations) : y \in SeqToSet(ExtractYears(c))}

StageLookupBundle ==
    StageRequest =>
        /\ Resolves(years[1]) =>
              /\ tool_outputs[1] =
                    "Stage for " \o block \o " in " \o NatStr(years[1]) \o ": "
                    \o StageOf(years[1]) \o " (level " \o Fmt2(LevelOf(years[1])) \o " m)."
              /\ CitationsNaming(years[1]) = {YearCitation(years[1])}
              /\ StoreCitations = {YearCitation(years[1])}
        /\ ~Resolves(years[1]) =>
              /\ tool_outputs[1] =
                    "insufficient data for " \o block \o " " \o NatStr(years[1])
              /\ StoreCitations = {}
        /\ query = STAGE_EXAMPLE =>
              /\ tool_outputs[1] = "Stage for Block B in 2022: Safe (level 9.70 m)."
              /\ Cardinality(CitationsNaming(2022)) = 1

StageLookupWitness ==
    /\ StageRequest
    /\ pc = "compose"
    /\ query = STAGE_EXAMPLE
    /\ Resolves(2022)
    /\ tool_outputs[1] = "Stage for Block B in 2022: Safe (level 9.70 m)."

StageLookupAbsentWitness ==
    /\ StageRequest
    /\ pc = "compose"
    /\ ~Resolves(years[1])
    /\ Len(citations) >= 1

(***************************************************************************)
(* C14. When the passage search raises, the step that called it ends in    *)
(* the composition step without an exception: it appends exactly one       *)
(* fragment, the note of the failure, adds no passage and no citation,     *)
(* leaves the fragments, the table and the citations collected before      *)
(* unchanged, and the request ends by returning an answer.                 *)
(***************************************************************************)
RetrievalFailureStep ==
    (pc = "rag" /\ rag_failed') =>
        /\ pc' = "compose"
        /\ outcome' = "none"
        /\ Len(tool_outputs') = Len(tool_outputs) + 1
        /\ SubSeq(tool_outputs', 1, Len(tool_outputs)) = tool_outputs
        /\ StartsWith(tool_outputs'[Len(tool_outputs')], "(RAG error suppressed: ")
        /\ citations' = citations
        /\ forced_table_md' = forced_table_md
        /\ rag_hits' = <<>>

RetrievalFailureContained ==
    /\ [][RetrievalFailureStep]_vars
    /\ [](rag_failed =>
            /\ pc \in {"compose", "done"}
            /\ \A i \in 1..Len(tool_outputs) : ~StartsWith(tool_outputs[i], "Policy:")
            /\ \A c \in SeqToSet(citations) : ~StartsWith(c, "Doc: ")
            /\ pc = "done" => outcome = "returned")

RetrievalFailureWitness ==
    /\ pc = "done"
    /\ rag_failed
    /\ outcome = "returned"
    /\ intent = "trend"
    /\ forced_table_md # ""
    /\ Len(tool_outputs) = 2
    /\ StartsWith(tool_outputs[2], "(RAG error suppressed: ")
    /\ Len(citations) = 1

(***************************************************************************)
(* C15. Whenever a tiny table was computed, the answer returned contains   *)
(* that table verbatim, its header and every row, whichever strategy       *)
(* composed the answer.                                                    *)
(***************************************************************************)
TableIsVerbatim ==
    (pc = "done" /\ outcome = "returned" /\ forced_table_md # "") =>
        Contains(answer, forced_table_md)

(***************************************************************************)
(* C16. With a credential configured and a backend call that returned a    *)
(* text, the answer is the sanitized form of that text followed by the     *)
(* table, if one is due, and the citations footer.                         *)
(***************************************************************************)
BackendTextIsUsed ==
    (pc = "done" /\ api_key /\ llm.kind = "ok") =>
        answer = FinalizeLlm(Strip(llm.text), citations, forced_table_md)

(***************************************************************************)
(* C17. The two years handed to the range lookup of a trend request, or to *)
(* the two lookups of a compare request, are the first two distinct years  *)
(* of the query in order of appearance; they are never the same year.      *)
(***************************************************************************)
RECURSIVE Distinct(_, _)
Distinct(ys, seen) ==
    IF Len(ys) = 0 THEN <<>>
    ELSE IF Head(ys) \in seen THEN Distinct(Tail(ys), seen)
    ELSE <<Head(ys)>> \o Distinct(Tail(ys), seen \cup {Head(ys)})

LookupYearsDistinct ==
    (calls.sql > 0 /\ intent \in {"trend", "compare"}) =>
        /\ years[1] # years[2]
        /\ LET ds == Distinct(ExtractYears(query), {})
           IN  Len(ds) >= 2 => (years[1] = ds[1] /\ years[2] = ds[2])

(***************************************************************************)
(* C18. A request classified definition or mixed, and a request classified *)
(* trend or compare whose query holds fewer than two years, makes no       *)
(* lookup in the store: the bundle has no table and no citation of the     *)
(* store, each of its fragments comes from passage retrieval and each of   *)
(* its citations is a "Doc:" citation.                                     *)
(***************************************************************************)
NoLookupRequest ==
    /\ pc \in {"rag", "compose", "done"}
    /\ \/ intent \in {"definition", "mixed"}
       \/ intent \in {"trend", "compare"} /\ Len(FindYears(query)) < 2

NoStructuredLookup ==
    NoLookupRequest =>
        /\ calls.sql = 0
        /\ forced_table_md = ""
        /\ StoreCitations = {}
        /\ \A i \in 1..Len(tool_outputs) : IsRetrievalFragment(tool_outputs[i])
        /\ \A c \in SeqToSet(citations) : StartsWith(c, "Doc: ")
        /\ pc = "rag" => (tool_outputs = <<>> /\ citations = <<>>)

NoStructuredLookupWitness ==
    /\ NoLookupRequest
    /\ pc = "compose"
    /\ intent = "trend"
    /\ Len(FindYears(query)) = 1
    /\ Len(tool_outputs) = 1
    /\ Len(citations) >= 1

(***************************************************************************)
(* C19. In a request the backend is called at most once, and not at all    *)
(* without a credential; a request that ends after a failed call has made  *)
(* exactly that one call and returns the text of the deterministic         *)
(* composer; the passage search is made at most once, and the store is     *)
(* queried once per lookup: once for trend and stage, once per year for    *)
(* compare.                                                                *)
(***************************************************************************)
SingleAttempts ==
    /\ calls.llm <= 1
    /\ ~api_key => calls.llm = 0
    /\ calls.rag <= 1
    /\ calls.sql <= (IF intent = "compare" THEN 2 ELSE 1)
    /\ (pc = "done" /\ api_key) => calls.llm = 1
    /\ (pc = "done" /\ llm.kind \in LlmFailureKinds) =>
          /\ calls.llm = 1
          /\ answer = _compose_fallback(tool_outputs, citations, forced_table_md)
    /\ pc = "done" => calls.rag = 1

SingleAttemptsWitness ==
    /\ pc = "done"
    /\ api_key
    /\ llm.kind = "status"
    /\ intent = "compare"
    /\ calls = [sql |-> 2, rag |-> 1, llm |-> 1]
    /\ rag_failed

====
